---------------------------- MODULE Spec2Model ----------------------------
(***************************************************************************)
(* Orange/preprocess/discretize.py as a state machine.                     *)
(*                                                                         *)
(* Every call of the module (Discretizer.transform,                        *)
(* Discretizer.create_discretized_var, EqualWidth/EqualFreq.__call__,      *)
(* EntropyMDL.__call__ with the recursion of _entropy_discretize_sorted,   *)
(* DomainDiscretizer.__call__) is an action over                           *)
(*   self   the fields of the object the method is called on,              *)
(*   args   the arguments of the call,                                     *)
(*   stack  the frames of the calls in progress,                           *)
(*   ret    the value returned (or the exception raised),                  *)
(*   pc     the position of the call.                                      *)
(*                                                                         *)
(* Numbers.  Python floats are modelled by exact rationals <<num, den>>    *)
(* (den > 0, lowest terms).  np.log2 of an integer is a fixed-point        *)
(* integer in units of 1/LogScale, additive over the prime factors, so     *)
(* that log2(a*b) = log2(a) + log2(b) holds exactly as it does in the      *)
(* reals.  The model therefore follows the real-number reading of the      *)
(* code; last-bit rounding of IEEE doubles is not modelled.                *)
(***************************************************************************)
EXTENDS Integers, Sequences, FiniteSets, TLC

VARIABLES self, args, stack, ret, pc

vars == <<self, args, stack, ret, pc>>

None == "None"
\* np.NaN: a value apart from every number of the model (all are >= 0).
NaN == -1

-----------------------------------------------------------------------------
(* Exact arithmetic standing for Python float arithmetic.                  *)

Abs(x) == IF x < 0 THEN -x ELSE x

RECURSIVE GCD(_, _)
GCD(a, b) == IF b = 0 THEN a ELSE GCD(b, a % b)

\* The rational n/d in lowest terms with a positive denominator.
Rat(n, d) ==
    LET g == GCD(Abs(n), Abs(d))
        s == IF d < 0 THEN -1 ELSE 1
    IN  <<(s * n) \div g, (s * d) \div g>>

R(i) == <<i, 1>>
RAdd(a, b) == Rat(a[1] * b[2] + b[1] * a[2], a[2] * b[2])
RNeg(a) == <<-a[1], a[2]>>
RSub(a, b) == RAdd(a, RNeg(b))
RMul(a, b) == Rat(a[1] * b[1], a[2] * b[2])
\* a / b for b # 0
RDiv(a, b) == Rat(a[1] * b[2], a[2] * b[1])
RLess(a, b) == a[1] * b[2] < b[1] * a[2]

RECURSIVE RSum(_)
RSum(s) == IF s = <<>> THEN R(0) ELSE RAdd(Head(s), RSum(Tail(s)))

RECURSIVE Sum(_)
Sum(s) == IF s = <<>> THEN 0 ELSE Head(s) + Sum(Tail(s))

RECURSIVE Pow(_, _)
Pow(b, e) == IF e = 0 THEN 1 ELSE b * Pow(b, e - 1)

\* One unit of a logarithm is 1/LogScale.
LogScale == 10000

\* round(log2(p) * LogScale) for the primes the model meets.
Log2Prime(p) ==
    CASE p = 2 -> 10000
      [] p = 3 -> 15850
      [] p = 5 -> 23219
      [] p = 7 -> 28074
      [] p = 11 -> 34594
      [] p = 13 -> 37004
      [] p = 79 -> 63038
      [] p = 241 -> 79129

SmallestFactor(n) ==
    CHOOSE p \in 2..n : n % p = 0 /\ \A q \in 2..(p - 1) : n % q # 0

\* np.log2(n) for an integer n >= 1, in units of 1/LogScale.
RECURSIVE Log2(_)
Log2(n) ==
    IF n = 1 THEN 0
    ELSE LET p == SmallestFactor(n) IN Log2Prime(p) + Log2(n \div p)


-----------------------------------------------------------------------------
(* Discretizer.transform                                                   *)

\* Longest input array of transform, and most cut points of a Discretizer.
MaxLen == 3

\* The values an array holds and the grid the cut points are drawn from.
ArrayValues == 0..6
PointGrid == {1, 3, 5}

IsStrictlyIncreasing(s) == \A i \in 1..(Len(s) - 1) : s[i] < s[i + 1]

SeqsUpTo(S, n) == UNION {[1..m -> S] : m \in 0..n}

\* The strictly increasing sequences over a set of integers.
IncreasingSeqs(S, n) == {s \in SeqsUpTo(S, n) : IsStrictlyIncreasing(s)}

isnan(x) == x = NaN

\* A changed digitize: bins[i-1] < x <= bins[i] (right=True).
RECURSIVE digitize_right(_, _, _, _)
digitize_right(x, bins, lo, hi) ==
    IF lo >= hi THEN lo
    ELSE LET mid == (lo + hi) \div 2 IN
         IF x <= bins[mid + 1] THEN digitize_right(x, bins, lo, mid)
         ELSE digitize_right(x, bins, mid + 1, hi)

\* np.digitize(x, bins) for increasing bins: the i with
\* bins[i-1] <= x < bins[i], found by bisection between lo and hi
\* (np.searchsorted(bins, x, side='right')).
RECURSIVE digitize(_, _, _, _)
digitize(x, bins, lo, hi) ==
    IF lo >= hi THEN lo
    ELSE LET mid == (lo + hi) \div 2 IN
         IF x < bins[mid + 1] THEN digitize(x, bins, lo, mid)
         ELSE digitize(x, bins, mid + 1, hi)

\* A changed transform: the missing values are binned like the others
\* (np.digitize puts a NaN past the last cut point).
transform_nowhere(c, points) ==
    [i \in 1..Len(c) |->
        IF isnan(c[i]) THEN Len(points)
        ELSE digitize(c[i], points, 0, Len(points))]

\* Discretizer.transform(c), lines 19-23
transform(c, points) ==
    IF Len(c) # 0
    THEN [i \in 1..Len(c) |->
            IF isnan(c[i]) THEN NaN
            ELSE digitize(c[i], points, 0, Len(points))]
    ELSE <<>>

Discretizer_transform ==
    /\ pc = "transform"
    /\ ret' = transform(args.c, self.points)
    /\ pc' = "done"
    /\ UNCHANGED <<self, args, stack>>

InitTransform ==
    /\ self \in [points : IncreasingSeqs(PointGrid, MaxLen)]
    /\ args \in [c : SeqsUpTo(ArrayValues \cup {NaN}, MaxLen)]
    /\ stack = <<>>
    /\ ret = None
    /\ pc = "transform"

NextTransform == Discretizer_transform

SpecTransform == InitTransform /\ [][NextTransform]_vars

\* C1: transform returns an array of the length of its input whose entry i is
\* NaN when c[i] is NaN and otherwise the number of cut points <= c[i]; each
\* entry depends on c[i] alone, and an empty array gives an empty array.
C1_TransformCountsCutPoints ==
    pc = "done" =>
        /\ Len(ret) = Len(args.c)
        /\ DOMAIN ret = DOMAIN args.c
        /\ \A i \in 1..Len(args.c) :
            IF args.c[i] = NaN THEN ret[i] = NaN
            ELSE ret[i] = Cardinality({j \in 1..Len(self.points) :
                                            self.points[j] <= args.c[i]})
        /\ args.c = <<>> => ret = <<>>

\* C1 witness: an array with a missing value beside a value that equals a cut
\* point, transformed with two or more cut points.
C1_Witness ==
    /\ pc = "done"
    /\ Len(self.points) >= 2
    /\ \E i, j \in 1..Len(args.c) :
        /\ args.c[i] = NaN /\ ret[i] = NaN
        /\ args.c[j] # NaN /\ args.c[j] = self.points[2] /\ ret[j] = 2

-----------------------------------------------------------------------------
(* Discretizer._fmt_interval and Discretizer.create_discretized_var        *)
(* A string is a sequence of one-character strings.  The numbers formatted *)
(* are rationals >= 0.                                                     *)

Digit == <<"0", "1", "2", "3", "4", "5", "6", "7", "8", "9">>
DigitValue(ch) == (CHOOSE i \in 1..10 : Digit[i] = ch) - 1

\* The decimal digits of a natural number.
RECURSIVE Digits(_)
Digits(m) ==
    IF m < 10 THEN <<Digit[m + 1]>>
    ELSE Append(Digits(m \div 10), Digit[(m % 10) + 1])

\* The last w decimal digits of m, zero-padded.
RECURSIVE LastDigits(_, _)
LastDigits(m, w) ==
    IF w = 0 THEN <<>>
    ELSE Append(LastDigits(m \div 10, w - 1), Digit[(m % 10) + 1])

\* value * 10^decimals rounded to an integer the way "%.<decimals>f" rounds a
\* double: to nearest, an exact tie to even.
RoundScaled(value, decimals) ==
    LET num == value[1] * Pow(10, decimals)
        q == num \div value[2]
        r2 == 2 * (num % value[2])
    IN  IF r2 > value[2] \/ (r2 = value[2] /\ q % 2 = 1) THEN q + 1 ELSE q

\* ("%%.%if" % decimals) % value
PercentF(value, decimals) ==
    LET m == RoundScaled(value, decimals)
        p == Pow(10, decimals)
    IN  IF decimals = 0 THEN Digits(m)
        ELSE Digits(m \div p) \o <<".">> \o LastDigits(m % p, decimals)

\* str.rstrip(ch)
RECURSIVE rstrip(_, _)
rstrip(str, ch) ==
    IF str # <<>> /\ str[Len(str)] = ch
    THEN rstrip(SubSeq(str, 1, Len(str) - 1), ch)
    ELSE str

\* fmt_value(value, decimals), lines 30-31
fmt_value(value, decimals) == rstrip(rstrip(PercentF(value, decimals), "0"), ".")

\* np.inf as a ratio with denominator 0; a label is a string, so the failed
\* assertion and "single_value" are kept as one-element sequences.
Inf == <<1, 0>>
NoNumber == <<0, 0>>
AssertionError == <<"AssertionError">>
single_value == <<"single_value">>
IsLimit(x) == x[2] = 0

\* Discretizer._fmt_interval(low, high, decimals), lines 26-41, for the
\* intervals create_discretized_var asks for; -np.inf and np.inf are both
\* Inf here, the position tells them apart.  A failed assertion of line 27
\* is the label AssertionError.
_fmt_interval(low, high, decimals) ==
    IF ~(IsLimit(low) \/ IsLimit(high) \/ RLess(low, high))
    THEN AssertionError
    ELSE IF IsLimit(low) /\ ~IsLimit(high)
    THEN <<"<">> \o fmt_value(high, decimals)
    ELSE IF IsLimit(high) /\ ~IsLimit(low)
    THEN <<">", "=">> \o fmt_value(low, decimals)
    ELSE <<"[">> \o fmt_value(low, decimals) \o <<",", " ">>
            \o fmt_value(high, decimals) \o <<")">>

\* Discretizer.create_discretized_var(var, points), lines 44-63: the new
\* variable, or the exception of _fmt_interval in its field error.
create_discretized_var(var, points) ==
    LET lpoints == points
        values ==
            IF lpoints # <<>>
            THEN [i \in 1..(Len(lpoints) + 1) |->
                    _fmt_interval((<<Inf>> \o lpoints)[i],
                                  (lpoints \o <<Inf>>)[i],
                                  var.number_of_decimals)]
            ELSE <<single_value>>
    IN  IF \E i \in 1..Len(values) : values[i] = AssertionError
        THEN [error |-> "AssertionError"]
        ELSE [error |-> None,
              name |-> <<"D_", var.name>>,
              is_continuous |-> FALSE,
              values |-> values,
              compute_value |-> [variable |-> var, points |-> points],
              source_variable |-> var]

Discretizer_create_discretized_var ==
    /\ pc = "create_discretized_var"
    /\ ret' = create_discretized_var(args.var, args.points)
    /\ pc' = "done"
    /\ UNCHANGED <<self, args, stack>>

\* The cut points of the label model, in tenths, and the display precisions
\* of the variable.
LabelGrid == {0, 5, 10, 15, 25, 100, 105}
Decimals == 0..2

InitLabels ==
    /\ self = None
    /\ \E tenths \in IncreasingSeqs(LabelGrid, MaxLen), d \in Decimals :
        args = [var |-> [name |-> "x", number_of_decimals |-> d],
                points |-> [i \in 1..Len(tenths) |-> Rat(tenths[i], 10)]]
    /\ stack = <<>>
    /\ ret = None
    /\ pc = "create_discretized_var"

NextLabels == Discretizer_create_discretized_var

SpecLabels == InitLabels /\ [][NextLabels]_vars

\* The number a decimal string writes, NoNumber if it writes none.
RECURSIVE ParseDigits(_)
ParseDigits(str) ==
    IF str = <<>> THEN 0
    ELSE 10 * ParseDigits(SubSeq(str, 1, Len(str) - 1)) + DigitValue(str[Len(str)])

IsDigits(str) == \A i \in 1..Len(str) : \E d \in 1..10 : Digit[d] = str[i]

ParseNumber(str) ==
    LET dots == {i \in 1..Len(str) : str[i] = "."} IN
    IF str = <<>> THEN NoNumber
    ELSE IF dots = {} THEN (IF IsDigits(str) THEN R(ParseDigits(str)) ELSE NoNumber)
    ELSE LET dot == CHOOSE i \in dots : TRUE
             whole == SubSeq(str, 1, dot - 1)
             frac == SubSeq(str, dot + 1, Len(str))
         IN  IF whole # <<>> /\ IsDigits(whole) /\ IsDigits(frac)
             THEN Rat(ParseDigits(whole \o frac), Pow(10, Len(frac)))
             ELSE NoNumber

\* The interval a label writes: "<h" is (-inf, h), ">=l" is [l, +inf),
\* "[l, h)" is [l, h).
Denotes(label) ==
    IF label[1] = "<"
    THEN [low |-> Inf, high |-> ParseNumber(SubSeq(label, 2, Len(label)))]
    ELSE IF label[1] = ">"
    THEN [low |-> ParseNumber(SubSeq(label, 3, Len(label))), high |-> Inf]
    ELSE LET comma == CHOOSE i \in 1..Len(label) : label[i] = "," IN
         [low |-> ParseNumber(SubSeq(label, 2, comma - 1)),
          high |-> ParseNumber(SubSeq(label, comma + 2, Len(label) - 1))]

\* A cut point at the display precision of the variable.
AtPrecision(value, decimals) ==
    Rat(RoundScaled(value, decimals), Pow(10, decimals))

\* C2: k >= 1 cut points give exactly k+1 labels in bin order, the first for
\* (-inf, cut[0]), the last for [cut[k-1], +inf), the i-th interior one for
\* [cut[i-1], cut[i]), each boundary written at the variable's precision; no
\* cut points give the one label "single_value"; the source variable is
\* referenced from the new variable and not modified.
C2_LabelsDenoteTheBins ==
    pc = "done" =>
        LET points == args.points
            k == Len(points)
            d == args.var.number_of_decimals
            bound(i) == IF i = 0 \/ i = k + 1 THEN Inf
                        ELSE AtPrecision(points[i], d)
        IN  /\ ret.error = None
            /\ ret.source_variable = args.var
            /\ ret.compute_value = [variable |-> args.var, points |-> points]
            /\ IF k = 0 THEN ret.values = <<single_value>>
               ELSE /\ Len(ret.values) = k + 1
                    /\ \A i \in 1..(k + 1) :
                        Denotes(ret.values[i]) =
                            [low |-> bound(i - 1), high |-> bound(i)]

-----------------------------------------------------------------------------
(* EntropyMDL: the entropy primitives and the cut search.                  *)
(* A contingency table C is a sequence of rows, one per distinct value in  *)
(* increasing value order; a row is a sequence of per-class counts.        *)

\* The columns of cont.counts.T: one per value of the class variable.
Classes == 1..4

\* Largest total count of a contingency table of the model.
MaxTotal == 5

\* np.sum(C, axis=0) of a table of rows
ColSum(C) == [j \in Classes |-> Sum([i \in 1..Len(C) |-> C[i][j]])]

\* np.sum(X > 0) of a count vector
CountPositive(X) == Cardinality({j \in DOMAIN X : X[j] > 0})

\* EntropyMDL._normalize(X) of one count vector: X / np.sum(X)
_normalize(X) == [j \in DOMAIN X |-> RDiv(R(X[j]), R(Sum(X)))]

\* np.log2(np.clip(d, eps, 1.0)) of a probability d: a zero is clipped to
\* machine epsilon, 2^-52.
Log2Clip(d) ==
    IF d[1] = 0 THEN R(-52 * LogScale) ELSE R(Log2(d[1]) - Log2(d[2]))

\* _discretize.entropy_normalized1(D): - sum(D * log2(clip(D)))
entropy_normalized1(D) ==
    RNeg(RSum([j \in DOMAIN D |-> RMul(D[j], Log2Clip(D[j]))]))

\* EntropyMDL._entropy1(D)
_entropy1(D) == entropy_normalized1(_normalize(D))

\* EntropyMDL._entropy2(D): one entropy per row of D
_entropy2(D) == [i \in DOMAIN D |-> entropy_normalized1(_normalize(D[i]))]

\* EntropyMDL._entropy_cuts_sorted(CS): E, ES1 and ES2 at the N-1 candidate
\* cuts (sequences indexed 1..N-1; the code's index i is i+1 here).
_entropy_cuts_sorted(CS) ==
    LET N == Len(CS)
        S1Dist == [i \in 1..(N - 1) |-> ColSum(SubSeq(CS, 1, i))]
        S2Dist == [i \in 1..(N - 1) |-> ColSum(SubSeq(CS, i + 1, N))]
        ES1 == _entropy2(S1Dist)
        ES2 == _entropy2(S2Dist)
        S1_count == [i \in 1..(N - 1) |-> Sum(S1Dist[i])]
        S2_count == [i \in 1..(N - 1) |-> Sum(S2Dist[i])]
        S_count == Sum(ColSum(CS))
        ES1w == [i \in 1..(N - 1) |->
                    RDiv(RMul(ES1[i], R(S1_count[i])), R(S_count))]
        ES2w == [i \in 1..(N - 1) |->
                    RDiv(RMul(ES2[i], R(S2_count[i])), R(S_count))]
    IN  [E |-> [i \in 1..(N - 1) |-> RAdd(ES1w[i], ES2w[i])],
         ES1 |-> ES1, ES2 |-> ES2]

\* A changed argmin: the position of the last minimum.
argmin_last(E) ==
    (CHOOSE i \in DOMAIN E :
        /\ \A j \in DOMAIN E : ~RLess(E[j], E[i])
        /\ \A j \in (i + 1)..Len(E) : RLess(E[i], E[j])) - 1

\* np.argmin(E): the 0-based position of the first minimum
argmin(E) ==
    (CHOOSE i \in DOMAIN E :
        /\ \A j \in DOMAIN E : ~RLess(E[j], E[i])
        /\ \A j \in 1..(i - 1) : RLess(E[i], E[j])) - 1

\* Lines 317-345 of _entropy_discretize_sorted for a table with at least two
\* rows: the best cut and the MDL acceptance test.
MDLTest(C) ==
    LET cuts == _entropy_cuts_sorted(C)
        E == cuts.E
        cut_index == argmin(E) + 1
        S1_c == ColSum(SubSeq(C, 1, cut_index))
        S2_c == ColSum(SubSeq(C, cut_index + 1, Len(C)))
        S_c == [j \in Classes |-> S1_c[j] + S2_c[j]]
        ES == _entropy1(ColSum(C))
        ES1 == cuts.ES1[cut_index]
        ES2 == cuts.ES2[cut_index]
        Gain == RSub(ES, E[cut_index])
        k == CountPositive(S_c)
        k1 == CountPositive(S1_c)
        k2 == CountPositive(S2_c)
        delta == RSub(R(Log2(Pow(3, k) - 2)),
                      RSub(RSub(RMul(R(k), ES), RMul(R(k1), ES1)),
                           RMul(R(k2), ES2)))
        N == Sum(S_c)
    IN  [cut_index |-> cut_index, k1 |-> k1, k2 |-> k2,
         accept |-> RLess(RAdd(RDiv(R(Log2(N - 1)), R(N)), RDiv(delta, R(N))),
                          Gain)]

\* A changed recursion: the caller's force is handed on.
RecursiveForce_passed(force) == force

\* The force argument of the two recursive calls (lines 349 and 351): it is
\* not passed, so the callee runs with the default force=False.
RecursiveForce(force) == FALSE

\* A changed rejection: force is ignored.
Rejected_unforced(force, cut_index) == <<>>

\* lines 353-356: what a call returns whose best cut fails the MDL test
Rejected(force, cut_index) == IF force THEN <<cut_index>> ELSE <<>>

\* A frame of _entropy_discretize_sorted(C, force).
Frame(C, force) ==
    [C |-> C, force |-> force, at |-> "entry", cut_index |-> 0,
     k1 |-> 0, k2 |-> 0, left |-> <<>>, right |-> <<>>]

Top == stack[Len(stack)]
SetTop(f) == [stack EXCEPT ![Len(stack)] = f]

\* The top frame returns v: to the frame below, which was waiting for its
\* left or its right cuts, or to EntropyMDL.__call__.
Returned(v) ==
    LET rest == SubSeq(stack, 1, Len(stack) - 1) IN
    IF rest = <<>>
    THEN /\ stack' = <<>>
         /\ ret' = v
         /\ pc' = "cut_ind"
    ELSE LET caller == rest[Len(rest)] IN
         /\ stack' = [rest EXCEPT ![Len(rest)] =
                IF caller.at = "wait_left"
                THEN [caller EXCEPT !.left = v, !.at = "right"]
                ELSE [caller EXCEPT !.right = v, !.at = "return"]]
         /\ UNCHANGED <<ret, pc>>

\* EntropyMDL.__call__, lines 178-180: the call of
\* _entropy_discretize_sorted(I, self.force)
EntropyMDL_call ==
    /\ pc = "EntropyMDL"
    /\ stack' = <<Frame(args.counts, self.force)>>
    /\ pc' = "recursion"
    /\ UNCHANGED <<self, args, ret>>

\* _entropy_discretize_sorted, lines 317-345 and 353-356: no candidate cut,
\* or the best cut and its MDL test; a rejected cut is returned if forced.
EDS_test ==
    /\ pc = "recursion"
    /\ Top.at = "entry"
    /\ IF Len(Top.C) < 2
       THEN Returned(<<>>)
       ELSE LET t == MDLTest(Top.C) IN
            IF t.accept
            THEN /\ stack' = SetTop([Top EXCEPT !.at = "left",
                                        !.cut_index = t.cut_index,
                                        !.k1 = t.k1, !.k2 = t.k2])
                 /\ UNCHANGED <<ret, pc>>
            ELSE Returned(Rejected(Top.force, t.cut_index))
    /\ UNCHANGED <<self, args>>

\* lines 347-349: the left sub-table C[:cut_index]
EDS_left ==
    /\ pc = "recursion"
    /\ Top.at = "left"
    /\ IF Top.k1 > 1 /\ Top.cut_index > 1
       THEN stack' = Append(SetTop([Top EXCEPT !.at = "wait_left"]),
                            Frame(SubSeq(Top.C, 1, Top.cut_index),
                                  RecursiveForce(Top.force)))
       ELSE stack' = SetTop([Top EXCEPT !.at = "right"])
    /\ UNCHANGED <<self, args, ret, pc>>

\* lines 350-351: the right sub-table C[cut_index:]
EDS_right ==
    /\ pc = "recursion"
    /\ Top.at = "right"
    /\ IF Top.k2 > 1 /\ Top.cut_index < Len(Top.C) - 1
       THEN stack' = Append(SetTop([Top EXCEPT !.at = "wait_right"]),
                            Frame(SubSeq(Top.C, Top.cut_index + 1, Len(Top.C)),
                                  RecursiveForce(Top.force)))
       ELSE stack' = SetTop([Top EXCEPT !.at = "return"])
    /\ UNCHANGED <<self, args, ret, pc>>

\* A changed line 352: the right cuts are not shifted.
Combine_unshifted(left, cut_index, right) == left \o <<cut_index>> \o right

\* line 352: left + [cut_index] + [i + cut_index for i in right]
Combine(left, cut_index, right) ==
    left \o <<cut_index>> \o [i \in 1..Len(right) |-> right[i] + cut_index]

EDS_return ==
    /\ pc = "recursion"
    /\ Top.at = "return"
    /\ Returned(Combine(Top.left, Top.cut_index, Top.right))
    /\ UNCHANGED <<self, args>>

\* cont.values of a table of n rows: strictly increasing.  The model draws
\* n of the values 1..n+1.
ValueSeqs(n) ==
    {[i \in 1..n |-> IF i < skip THEN i ELSE i + 1] : skip \in 1..(n + 1)}

\* EntropyMDL.__call__, lines 181-187: the cut indices (0-based rows) become
\* midpoints (values[i] + values[i-1]) / 2.
Midpoints(values, cut_ind) ==
    [j \in 1..Len(cut_ind) |->
        RDiv(R(values[cut_ind[j] + 1] + values[cut_ind[j]]), R(2))]

EntropyMDL_points ==
    /\ pc = "cut_ind"
    /\ \E values \in ValueSeqs(Len(args.counts)) :
        /\ args' = [args EXCEPT !.values = values]
        /\ ret' = [cut_ind |-> ret, points |-> Midpoints(values, ret)]
    /\ pc' = "done"
    /\ UNCHANGED <<self, stack>>

\* The rows of a table: at least one instance each.
Rows == [s \in 1..MaxTotal |-> {r \in [Classes -> 0..s] : Sum(r) = s}]

\* All tables of total count at most t.
RECURSIVE TablesUpTo(_)
TablesUpTo(t) ==
    {<<>>} \cup
    UNION {UNION {{<<r>> \o rest : rest \in TablesUpTo(t - s)} : r \in Rows[s]}
           : s \in 1..t}

\* The first row in which class j occurs (past the end if it never does).
FirstRow(C, j) ==
    IF \A i \in 1..Len(C) : C[i][j] = 0 THEN Len(C) + 1
    ELSE CHOOSE i \in 1..Len(C) :
            C[i][j] > 0 /\ \A h \in 1..(i - 1) : C[h][j] = 0

\* Every computation on a table (column sums, counts of positive entries,
\* entropies) treats the columns alike, so the tables are taken up to a
\* renaming of the classes: the classes are numbered as they first occur.
Canonical(C) ==
    \A j \in Classes : (j + 1) \in Classes => FirstRow(C, j) <= FirstRow(C, j + 1)

Tables == {C \in TablesUpTo(MaxTotal) : Canonical(C)}

InitMDL ==
    /\ self \in [force : BOOLEAN]
    /\ args \in [counts : Tables, values : {None}]
    /\ stack = <<>>
    /\ ret = None
    /\ pc = "EntropyMDL"

NextMDL ==
    \/ EntropyMDL_call
    \/ EDS_test
    \/ EDS_left
    \/ EDS_right
    \/ EDS_return
    \/ EntropyMDL_points

SpecMDL == InitMDL /\ [][NextMDL]_vars

-----------------------------------------------------------------------------
(* Claims about EntropyMDL (checked under SpecMDL).                        *)

\* The list returned by the top-level _entropy_discretize_sorted call.
CutInd == IF pc = "done" THEN ret.cut_ind ELSE ret
Returning == pc \in {"cut_ind", "done"}

StrictlyIncreasing(s) == \A i \in 1..(Len(s) - 1) : s[i] < s[i + 1]

\* C5: when the top-level _entropy_discretize_sorted call has returned, for
\* a table with at least 2 rows force=true gave at least one cut: exactly
\* [argmin(E)+1] when the best cut fails the MDL test at the top level, and
\* a list containing it when the cut passes; with force=false a rejected
\* top-level cut gave no cut; fewer than 2 rows gave no cut.
C5_ForcedTopLevelCut ==
    pc = "cut_ind" =>
        LET C == args.counts IN
        IF Len(C) < 2 THEN CutInd = <<>>
        ELSE LET t == MDLTest(C)
                 first_min == argmin(_entropy_cuts_sorted(C).E) + 1
             IN  /\ self.force => Len(CutInd) >= 1
                 /\ t.accept => \E i \in 1..Len(CutInd) : CutInd[i] = first_min
                 /\ (~t.accept /\ self.force) => CutInd = <<first_min>>
                 /\ (~t.accept /\ ~self.force) => CutInd = <<>>

\* C5 witness: a forced run whose top-level cut was rejected and returned.
C5_Witness ==
    /\ pc = "cut_ind"
    /\ self.force
    /\ Len(args.counts) >= 3
    /\ ~MDLTest(args.counts).accept
    /\ Len(ret) = 1

\* A caller that is past its left (right) recursion, had a left (right)
\* sub-table the code recurses into, and whose sub-table's own best cut
\* fails the MDL test.
PastLeft(f) == f.at \in {"right", "wait_right", "return"}
PastRight(f) == f.at = "return"
LeftTable(f) == SubSeq(f.C, 1, f.cut_index)
RightTable(f) == SubSeq(f.C, f.cut_index + 1, Len(f.C))
LeftRejected(f) ==
    PastLeft(f) /\ f.k1 > 1 /\ f.cut_index > 1 /\ ~MDLTest(LeftTable(f)).accept
RightRejected(f) ==
    /\ PastRight(f) /\ f.k2 > 1 /\ f.cut_index < Len(f.C) - 1
    /\ ~MDLTest(RightTable(f)).accept

\* C6 as stated: force is applied at every recursive level, so every frame
\* runs with self.force and a rejected sub-table of a forced run still
\* contributes one forced cut.
C6_ForceAtEveryLevel ==
    \A i \in 1..Len(stack) :
        /\ stack[i].force = self.force
        /\ (self.force /\ LeftRejected(stack[i])) => Len(stack[i].left) = 1
        /\ (self.force /\ RightRejected(stack[i])) => Len(stack[i].right) = 1

\* C6 amended: force is applied at the top-level call only; every recursive
\* call runs with force=false, so a sub-table whose own best cut fails the
\* MDL test contributes no cut, whatever self.force is.
C6_ForceAtTopLevelOnly ==
    \A i \in 1..Len(stack) :
        /\ stack[i].force = (IF i = 1 THEN self.force ELSE FALSE)
        /\ LeftRejected(stack[i]) => stack[i].left = <<>>
        /\ RightRejected(stack[i]) => stack[i].right = <<>>

\* C6 witness: a forced run came back from a recursive call on a sub-table
\* whose best cut fails the MDL test.
C6_Witness ==
    /\ self.force
    /\ Len(stack) >= 1
    /\ LeftRejected(stack[1]) \/ RightRejected(stack[1])

\* k = 1: a single class has non-zero counts.
SingleClass(C) == CountPositive(ColSum(C)) = 1

\* C7 as stated: a table with a single class gives no cuts, with force=false
\* and with force=true, for any number of rows.
C7_SingleClassNoCuts ==
    (pc = "done" /\ SingleClass(args.counts)) =>
        ret.cut_ind = <<>> /\ ret.points = <<>>

\* C7 amended: a table with a single class gives no cuts with force=false or
\* with fewer than two rows; with force=true and at least two rows it gives
\* exactly one cut, the forced cut at row index 1 (the first minimum of an
\* all-zero E), hence two bins.
C7_SingleClassForcedCut ==
    (pc = "done" /\ SingleClass(args.counts)) =>
        IF self.force /\ Len(args.counts) >= 2
        THEN /\ ret.cut_ind = <<1>>
             /\ ret.points = <<RDiv(R(args.values[1] + args.values[2]), R(2))>>
        ELSE ret.cut_ind = <<>> /\ ret.points = <<>>

\* C7 witness: a forced run on a single-class table of three or more rows.
C7_Witness ==
    /\ pc = "done"
    /\ SingleClass(args.counts)
    /\ self.force
    /\ Len(args.counts) >= 3
    /\ ret.cut_ind = <<1>>

\* The cuts a frame holds are strictly increasing row indices of its table.
CutsOf(s, n) == StrictlyIncreasing(s) /\ \A i \in 1..Len(s) : s[i] \in 1..(n - 1)

FrameCutsInRange(f) ==
    /\ CutsOf(f.left, f.cut_index)
    /\ CutsOf(f.right, Len(f.C) - f.cut_index)
    /\ f.left # <<>> => (f.k1 > 1 /\ f.cut_index > 1)
    /\ f.right # <<>> => (f.k2 > 1 /\ f.cut_index < Len(f.C) - 1)
    /\ f.at # "entry" => f.cut_index \in 1..(Len(f.C) - 1)

\* A recursive call is on the caller's left or right sub-table, and only on
\* one with more than one class present and more than one row.
FrameIsSubTable(caller, f) ==
    /\ Len(f.C) > 1
    /\ CountPositive(ColSum(f.C)) > 1
    /\ \/ caller.at = "wait_left" /\ f.C = LeftTable(caller)
       \/ caller.at = "wait_right" /\ f.C = RightTable(caller)

C10_Safe ==
    /\ \A i \in 1..Len(stack) : FrameCutsInRange(stack[i])
    /\ \A i \in 2..Len(stack) : FrameIsSubTable(stack[i - 1], stack[i])
    /\ Returning => CutsOf(CutInd, Len(args.counts))
    /\ pc = "done" =>
        /\ Len(ret.points) = Len(ret.cut_ind)
        /\ \A j \in 1..Len(ret.points) :
            /\ RLess(R(args.values[ret.cut_ind[j]]), ret.points[j])
            /\ RLess(ret.points[j], R(args.values[ret.cut_ind[j] + 1]))

\* The steps a call on a table of n rows can take at most: one for fewer than
\* two rows, else the test, the two recursion steps, the return and the two
\* recursive calls.
Work(n) == IF n < 2 THEN 1 ELSE 5 * n - 4

\* The steps a frame can still take itself or start.
Remaining(f) ==
    LET n == Len(f.C) IN
    CASE f.at = "entry" -> Work(n)
      [] f.at = "left" -> 3 + Work(f.cut_index) + Work(n - f.cut_index)
      [] f.at = "wait_left" -> 2 + Work(n - f.cut_index)
      [] f.at = "right" -> 2 + Work(n - f.cut_index)
      [] f.at = "wait_right" -> 1
      [] f.at = "return" -> 1

\* The variant of the call: the steps left before pc = "done".
Variant ==
    CASE pc = "EntropyMDL" -> 2 + Work(Len(args.counts))
      [] pc = "recursion" ->
            1 + Sum([i \in 1..Len(stack) |-> Remaining(stack[i])])
      [] pc = "cut_ind" -> 1
      [] pc = "done" -> 0

\* The guards of the actions of NextMDL; what follows a guard in an action
\* assigns the next state and is always possible.
CanStep ==
    \/ pc = "EntropyMDL"
    \/ /\ pc = "recursion"
       /\ stack # <<>>
       /\ Top.at \in {"entry", "left", "right", "return"}
    \/ pc = "cut_ind"

\* C10: the recursion terminates (until the call is done a step is possible,
\* and every step decreases a non-negative variant), and the indices it
\* returns are strictly increasing row indices within 1..N-1: left cuts, the
\* cut, right cuts shifted by the cut, sub-tables recursed into only with
\* more than one class and more than one row; each cut point lies strictly
\* between the two adjacent values.
C10_TerminatesWithOrderedCuts ==
    /\ []C10_Safe
    /\ [](Variant >= 0 /\ (pc # "done" => CanStep))
    /\ [][Variant' < Variant]_vars

\* C10 witness: a finished run in which both the left and the right
\* recursion contributed a cut.
C10_Witness ==
    /\ pc = "done"
    /\ Len(ret.cut_ind) >= 3
    /\ Len(ret.points) = Len(ret.cut_ind)


-----------------------------------------------------------------------------
(* EqualFreq.__call__ and EqualWidth.__call__                              *)
(* data is [type, dist, domain]: type is "SqlTable" or "Table"; domain is  *)
(* [attributes, class_vars]; dist maps the name of a continuous variable   *)
(* to the distribution of its column, a pair of rows: dist[1] the distinct *)
(* values in increasing order and dist[2] their counts (dist[0] and        *)
(* dist[1] in the code).  fixed is a mapping from names to <<min, max>>;   *)
(* None and {} are both the empty mapping <<>>, the code tests no more     *)
(* than its truth value.                                                   *)

MaxBins == 4
DataValues == 0..3
Counts == 1..2

Range(s) == {s[i] : i \in DOMAIN s}

\* sorted(set(points))
RECURSIVE sorted_set(_)
sorted_set(S) ==
    IF S = {} THEN <<>>
    ELSE LET m == CHOOSE x \in S : \A y \in S : ~RLess(y, x)
         IN  <<m>> \o sorted_set(S \ {m})

\* [min + (i + 1) * dif for i in range(n - 1)] with dif = (max - min) / n
interior_boundaries(min, max, n) ==
    LET dif == RDiv(RSub(max, min), R(n))
    IN  [i \in 1..(n - 1) |-> RAdd(min, RMul(R(i), dif))]

\* EqualWidth._split_eq_width(dist, n), lines 141-147
_split_eq_width(dist, n) ==
    LET min == dist[1][1]
        max == dist[1][Len(dist[1])]
    IN  IF min = max THEN <<>> ELSE interior_boundaries(min, max, n)

\* EqualWidth._split_eq_width_fixed(min, max, n), lines 150-154
_split_eq_width_fixed(min, max, n) ==
    IF min = max THEN <<>> ELSE interior_boundaries(min, max, n)

\* What min(att), max(att) of the query backend answer for a column.
sql_min_max(dist) == <<dist[1][1], dist[1][Len(dist[1])]>>

\* What quantile(att, ARRAY[1/n, ..., (n-1)/n]) of the query backend may
\* answer for a column: n - 1 of its values, in nondecreasing order.
sql_quantile(dist, n) ==
    {q \in [1..(n - 1) -> Range(dist[1])] :
        \A i \in 1..(n - 2) : ~RLess(q[i + 1], q[i])}

\* The points of EqualWidth.__call__(data, attribute, fixed), lines 120-136,
\* or the exception raised by fixed[attribute.name].
EqualWidth_points(n, data, attribute, fixed) ==
    IF fixed # <<>>
    THEN IF attribute.name \notin DOMAIN fixed
         THEN [error |-> "KeyError"]
         ELSE [error |-> None,
               points |-> _split_eq_width_fixed(fixed[attribute.name][1],
                                                fixed[attribute.name][2], n)]
    ELSE IF data.type = "SqlTable"
    THEN LET mm == sql_min_max(data.dist[attribute.name])
         IN  [error |-> None, points |-> interior_boundaries(mm[1], mm[2], n)]
    ELSE [error |-> None,
          points |-> _split_eq_width(data.dist[attribute.name], n)]

\* _discretize.split_eq_freq(dist, n): the values of the distribution at the
\* quantile ranks i/n of the cumulative count (the first value whose
\* cumulative count exceeds the rank), deduplicated and sorted; a single
\* distinct value gives no cut point.
split_eq_freq(dist, n) ==
    LET values == dist[1]
        counts == dist[2]
        N == Sum(counts)
        cum(j) == Sum(SubSeq(counts, 1, j))
        at(i) == values[CHOOSE j \in 1..Len(values) :
                            /\ n * cum(j) > i * N
                            /\ \A l \in 1..(j - 1) : n * cum(l) <= i * N]
    IN  IF Len(values) = 1 THEN <<>>
        ELSE sorted_set({at(i) : i \in 1..(n - 1)})

\* The points of EqualFreq.__call__(data, attribute), lines 93-103, with
\* quantiles the answer of the query backend.
EqualFreq_points(n, data, attribute, quantiles) ==
    IF data.type = "SqlTable"
    THEN sorted_set(Range(quantiles))
    ELSE split_eq_freq(data.dist[attribute.name], n)

\* data.domain[attribute]: the variable of the domain with that name.
domain_getitem(domain, attribute) ==
    LET all == domain.attributes \o domain.class_vars
    IN  all[CHOOSE i \in 1..Len(all) : all[i].name = attribute.name]

\* The call of Discretizer.create_discretized_var that ends both __call__s:
\* the frame of the caller stays on the stack.
HandPoints(points) ==
    /\ stack' = Append(stack, args)
    /\ args' = [var |-> domain_getitem(args.data.domain, args.attribute),
                points |-> points]
    /\ pc' = "create_discretized_var"
    /\ UNCHANGED <<self, ret>>

EqualFreq_call ==
    /\ pc = "EqualFreq"
    /\ \E quantiles \in sql_quantile(args.data.dist[args.attribute.name], self.n) :
        HandPoints(EqualFreq_points(self.n, args.data, args.attribute, quantiles))

EqualWidth_call ==
    /\ pc = "EqualWidth"
    /\ LET r == EqualWidth_points(self.n, args.data, args.attribute, args.fixed)
       IN  IF r.error # None
           THEN /\ ret' = r
                /\ pc' = "done"
                /\ UNCHANGED <<self, args, stack>>
           ELSE HandPoints(r.points)

\* The distributions of a column: its distinct values with their counts.
Distributions ==
    UNION {{<<[i \in 1..Len(v) |-> R(v[i])], c>> : c \in [1..Len(v) -> Counts]} :
            v \in IncreasingSeqs(DataValues, Cardinality(DataValues)) \ {<<>>}}

ContinuousVariable(name) ==
    [name |-> name, is_continuous |-> TRUE, number_of_decimals |-> 1,
     values |-> <<>>]

x == ContinuousVariable("x")

\* The fixed-range arguments tried: none, a range, a range of one value, a
\* mapping without the attribute.
FixedRanges ==
    {<<>>, "x" :> <<R(1), R(4)>>, "x" :> <<R(2), R(2)>>, "z" :> <<R(0), R(1)>>}

InitCuts ==
    /\ \E n \in 1..MaxBins : \E class \in {"EqualFreq", "EqualWidth"} :
        /\ self = [class |-> class, n |-> n]
        /\ pc = class
        /\ \E type \in {"SqlTable", "Table"}, dist \in Distributions :
           \E fixed \in IF class = "EqualWidth" THEN FixedRanges ELSE {<<>>} :
            args = [data |-> [type |-> type, dist |-> "x" :> dist,
                              domain |-> [attributes |-> <<x>>,
                                          class_vars |-> <<>>]],
                    attribute |-> x,
                    fixed |-> fixed]
    /\ stack = <<>>
    /\ ret = None

NextCuts ==
    \/ EqualFreq_call
    \/ EqualWidth_call
    \/ Discretizer_create_discretized_var

SpecCuts == InitCuts /\ [][NextCuts]_vars

\* C3: the cut points handed to Discretizer.create_discretized_var are
\* strictly increasing: no two are equal and none is smaller than its
\* predecessor.
C3_CutPointsStrictlyIncreasing ==
    pc = "create_discretized_var" =>
        \A i \in 1..(Len(args.points) - 1) :
            RLess(args.points[i], args.points[i + 1])

\* C4: EqualWidth with n bins hands over no cut point when min = max and
\* otherwise the n - 1 boundaries min + i * (max - min) / n, i in 1..n-1,
\* whether min and max come from the fixed range, from the distribution or
\* from the query backend.
C4_EqualWidthBoundaries ==
    (pc = "create_discretized_var" /\ self.class = "EqualWidth") =>
        LET call == stack[Len(stack)]
            dist == call.data.dist[call.attribute.name]
            min == IF call.fixed # <<>> THEN call.fixed[call.attribute.name][1]
                   ELSE dist[1][1]
            max == IF call.fixed # <<>> THEN call.fixed[call.attribute.name][2]
                   ELSE dist[1][Len(dist[1])]
            points == args.points
        IN  IF min = max THEN points = <<>>
            ELSE /\ Len(points) = self.n - 1
                 /\ \A i \in 1..(self.n - 1) :
                        RMul(R(self.n), RSub(points[i], min))
                            = RMul(R(i), RSub(max, min))


-----------------------------------------------------------------------------
(* DomainDiscretizer.__call__                                              *)

MaxAttrs == 2
DefaultBins == 4

\* method(data, var) or, with passed, method(data, var, fixed): the new
\* variable, or the exception raised.  EqualFreq.__call__ (line 93) has no
\* third parameter.
Discretization_call(method, data, var, passed, fixed, quantiles) ==
    IF method.class = "EqualFreq"
    THEN IF passed THEN [error |-> "TypeError"]
         ELSE create_discretized_var(
                domain_getitem(data.domain, var),
                EqualFreq_points(method.n, data, var, quantiles[var.name]))
    ELSE LET r == EqualWidth_points(method.n, data, var,
                                    IF passed THEN fixed ELSE <<>>)
         IN  IF r.error # None THEN r
             ELSE create_discretized_var(domain_getitem(data.domain, var),
                                         r.points)

\* A changed line 407: clean is ignored.
Kept_unclean(clean, nv) == Len(nv.values) > 1

\* line 407: not self.clean or len(nv.values) > 1
Kept(clean, nv) == ~clean \/ Len(nv.values) > 1

\* transform_list(s, fixed), lines 399-411: [error, vars]
RECURSIVE transform_list(_, _, _, _, _, _)
transform_list(clean, method, data, quantiles, s, fixed) ==
    IF s = <<>> THEN [error |-> None, vars |-> <<>>]
    ELSE LET var == Head(s)
             nv == Discretization_call(
                      method, data, var,
                      fixed # <<>> /\ var.name \in DOMAIN fixed,
                      fixed, quantiles)
             rest == transform_list(clean, method, data, quantiles, Tail(s), fixed)
         IN  IF var.is_continuous /\ nv.error # None THEN [error |-> nv.error]
             ELSE IF rest.error # None THEN rest
             ELSE [error |-> None,
                   vars |-> (IF ~var.is_continuous THEN <<var>>
                             ELSE IF Kept(clean, nv) THEN <<nv>>
                             ELSE <<>>) \o rest.vars]

\* The method used, lines 412-415.
method_used(self_method) ==
    IF self_method.class = None
    THEN [class |-> "EqualFreq", n |-> DefaultBins]
    ELSE self_method

\* What the query backend may answer to the quantile queries of a call: one
\* answer for each continuous variable.
ContinuousNames == {"x", "w", "y"}
sql_quantiles(data, n) ==
    {[name \in ContinuousNames |->
        IF name = "x" THEN qx ELSE IF name = "w" THEN qw ELSE qy] :
        qx \in sql_quantile(data.dist["x"], n),
        qw \in sql_quantile(data.dist["w"], n),
        qy \in sql_quantile(data.dist["y"], n)}

\* DomainDiscretizer.__call__(data, fixed), lines 392-422
DomainDiscretizer_call ==
    /\ pc = "DomainDiscretizer"
    /\ LET method == method_used(self.method)
           data == args.data
           domain == data.domain
       IN  \E quantiles \in sql_quantiles(data, method.n) :
           LET new_attrs == transform_list(self.clean, method, data, quantiles,
                                           domain.attributes, args.fixed)
               new_classes ==
                   IF self.discretize_class
                   THEN transform_list(self.clean, method, data, quantiles,
                                       domain.class_vars, <<>>)
                   ELSE [error |-> None, vars |-> domain.class_vars]
           IN  ret' = IF new_attrs.error # None THEN [error |-> new_attrs.error]
                      ELSE IF new_classes.error # None
                      THEN [error |-> new_classes.error]
                      ELSE [error |-> None,
                            attributes |-> new_attrs.vars,
                            class_vars |-> new_classes.vars]
    /\ pc' = "done"
    /\ UNCHANGED <<self, args, stack>>

DiscreteVariable(name) ==
    [name |-> name, is_continuous |-> FALSE, number_of_decimals |-> 0,
     values |-> <<<<"u">>, <<"v">>>>]

\* The schemas tried: up to MaxAttrs different features among a varying, a
\* constant-prone and a categorical one, and one target at most.
AttributePool == {ContinuousVariable("x"), ContinuousVariable("w"), DiscreteVariable("a")}
ClassPool == {ContinuousVariable("y"), DiscreteVariable("c")}

Injective(s) == \A i, j \in 1..Len(s) : s[i] = s[j] => i = j

Varying == <<<<R(0), R(2), R(4)>>, <<1, 1, 2>>>>
Constant == <<<<R(3)>>, <<2>>>>

Methods ==
    {[class |-> None, n |-> 0],
     [class |-> "EqualWidth", n |-> 2],
     [class |-> "EqualFreq", n |-> 2]}

FixedMappings ==
    {<<>>,
     "x" :> <<R(0), R(8)>>,
     "y" :> <<R(0), R(8)>>,
     ("x" :> <<R(0), R(8)>>) @@ ("y" :> <<R(1), R(1)>>)}

InitDomain ==
    /\ self \in [discretize_class : BOOLEAN, method : Methods, clean : BOOLEAN]
    /\ \E attributes \in {s \in SeqsUpTo(AttributePool, MaxAttrs) : Injective(s)},
          class_vars \in SeqsUpTo(ClassPool, 1),
          type \in {"SqlTable", "Table"},
          dy \in {Varying, Constant},
          fixed \in FixedMappings :
        args = [data |-> [type |-> type,
                          dist |-> [name \in ContinuousNames |->
                                      IF name = "x" THEN Varying
                                      ELSE IF name = "w" THEN Constant ELSE dy],
                          domain |-> [attributes |-> attributes,
                                      class_vars |-> class_vars]],
                fixed |-> fixed]
    /\ stack = <<>>
    /\ ret = None
    /\ pc = "DomainDiscretizer"

NextDomain == DomainDiscretizer_call

SpecDomain == InitDomain /\ [][NextDomain]_vars

\* The treatment of features as the claims describe it.  out[i] is the
\* discretized variable of a continuous s[i], the strategy called with the
\* fixed-range mapping exactly when the mapping is given and has its name,
\* and s[i] itself when s[i] is categorical; with clean, a discretized
\* variable with a single label is dropped; result lists the others in order.
IsFeatureTreatment(result, s, fixed, quantiles) ==
    LET strategy == IF self.method.class = None
                    THEN [class |-> "EqualFreq", n |-> 4]
                    ELSE self.method
        out == [i \in 1..Len(s) |->
                  IF s[i].is_continuous
                  THEN Discretization_call(strategy, args.data, s[i],
                            fixed # <<>> /\ s[i].name \in DOMAIN fixed,
                            fixed, quantiles)
                  ELSE s[i]]
        keep == {i \in 1..Len(s) :
                    \/ ~s[i].is_continuous
                    \/ ~self.clean
                    \/ Len(out[i].values) > 1}
        rank(i) == Cardinality({j \in keep : j <= i})
    IN  /\ \A i \in 1..Len(s) : s[i].is_continuous => out[i].error = None
        /\ Len(result) = Cardinality(keep)
        /\ \A i \in keep : result[rank(i)] = out[i]

\* C8: the output feature list is the input feature list in order, each
\* categorical feature unchanged, each continuous feature replaced by its
\* discretized variable (the strategy called with the fixed-range mapping
\* exactly when the mapping is given and contains the feature's name, and
\* EqualFreq with 4 bins the strategy when no method was supplied), the
\* discretized variables with one label dropped when clean is true and no
\* feature dropped when clean is false.
C8_FeaturesDiscretizedInOrder ==
    (pc = "done" /\ ret.error = None) =>
        /\ \E quantiles \in sql_quantiles(args.data, method_used(self.method).n) :
            IsFeatureTreatment(ret.attributes, args.data.domain.attributes,
                               args.fixed, quantiles)
        /\ ~self.clean =>
            Len(ret.attributes) = Len(args.data.domain.attributes)

\* C8 witness: with clean, of a constant and a varying continuous feature
\* the constant one is dropped and the varying one, whose name the
\* fixed-range mapping contains, is discretized over the fixed range 0..8.
C8_Witness ==
    /\ pc = "done"
    /\ ret.error = None
    /\ self.clean
    /\ self.method.class = "EqualWidth"
    /\ Len(args.data.domain.attributes) = 2
    /\ args.data.domain.attributes[1].name = "w"
    /\ "x" \in DOMAIN args.fixed
    /\ Len(ret.attributes) = 1
    /\ ret.attributes[1].source_variable.name = "x"
    /\ ret.attributes[1].compute_value.points = <<R(4)>>

\* C9: with the target-discretization flag set the target variables get the
\* treatment of features (same strategy, the fixed range passed when the
\* mapping contains the name, the same clean filtering); with the flag unset
\* they are in the output schema unchanged.
C9_TargetTreatedAsFeature ==
    (pc = "done" /\ ret.error = None) =>
        IF self.discretize_class
        THEN \E quantiles \in sql_quantiles(args.data, method_used(self.method).n) :
                IsFeatureTreatment(ret.class_vars, args.data.domain.class_vars,
                                   args.fixed, quantiles)
        ELSE ret.class_vars = args.data.domain.class_vars

=============================================================================
